---- MODULE Spec2Model ----
(***************************************************************************)
(* A model of tf-alae: the progressive-growing Generator of                *)
(* models/stylealae/generator.py and the ALAE training orchestrator of     *)
(* models/alae.py.                                                         *)
(*                                                                         *)
(* Tensors are abstracted to what the properties read: a feature map is    *)
(* its spatial size and channel count, a trainable variable is its         *)
(* identity (and, for the orchestrator, one integer value), a loss value   *)
(* is the term recording which function produced it from which inputs.     *)
(***************************************************************************)
EXTENDS Integers, Sequences, FiniteSets, TLC

(***************************************************************************)
(* Bounds of the model.                                                    *)
(***************************************************************************)
MaxInitChannels == 2
MaxChannelsCap == 6
MaxNumLayer == 6
MaxTrainSteps == 1
MaxGrad == 2
MaxClip == 1

InitChannelsArgs == 1..MaxInitChannels
MaxChannelsArgs == 1..MaxChannelsCap
NumLayerArgs == 1..MaxNumLayer
\* set_level takes any integer: one below and one above every legal range
LevelArgs == (0 - 2)..(MaxNumLayer + 1)

(***************************************************************************)
(* Python helpers.                                                         *)
(***************************************************************************)
Min(a, b) == IF a < b THEN a ELSE b

Max(a, b) == IF a > b THEN a ELSE b

RECURSIVE Pow2(_)
Pow2(n) == IF n <= 0 THEN 1 ELSE 2 * Pow2(n - 1)

\* s[:stop] of a Python list
PySliceTo(s, stop) ==
    LET n == Len(s)
        e == IF stop < 0 THEN Max(stop + n, 0) ELSE Min(stop, n)
    IN  SubSeq(s, 1, e)

\* does s[i] of a Python list raise IndexError
PyIndexRaises(s, i) == i >= Len(s) \/ i < 0 - Len(s)

\* the 0-based position s[i] denotes (negative i counts from the end)
PyIndexPos(s, i) == IF i < 0 THEN i + Len(s) ELSE i

PyIndex(s, i) == s[PyIndexPos(s, i) + 1]

VARIABLES
    \* ---- Generator (generator.py) ----
    init_channels, max_channels, num_layer,
    level,          \* self.level
    const,          \* self.const: [resolution, channels] of the base map
    blocks,         \* self.blocks: sequence of Block records
    to_rgb,         \* self.to_rgb: sequence of head records
    levelWasSet,    \* history: set_level has been called
    gret,           \* history: the last Generator method call and its result
    \* ---- ALAE (alae.py) ----
    overridden,     \* the builder methods the concrete subclass overrides
    lazy,           \* the builders whose model creates its variable on first call
    attrs,          \* the attributes assigned on self so far
    disc_gclip,     \* self.disc_gclip
    built,          \* per sub-model: its trainable variable exists
    params,         \* per sub-model: the value of its trainable variable
    ed_var, fg_var, eg_var,   \* the variable lists captured by prepare
    opts,           \* the three Adam optimizers: iterations and per-variable slot
    pc,             \* position inside trainstep: next sub-step, or "idle"
    cur_x,          \* the batch x of the trainstep call in progress
    nsteps,         \* number of trainstep calls since prepare
    subs,           \* history: the _update calls completed by the current trainstep
    aret            \* history: the last ALAE method call and its outcome

genVars == <<init_channels, max_channels, num_layer, level, const, blocks,
             to_rgb, levelWasSet, gret>>

alaeVars == <<overridden, lazy, attrs, disc_gclip, built, params, ed_var, fg_var,
              eg_var, opts, pc, cur_x, nsteps, subs, aret>>

vars == <<genVars, alaeVars>>

(***************************************************************************)
(* Generator.Block.__init__ and the to-RGB heads.                          *)
(***************************************************************************)
\* the layers of a Block that own trainable variables, in creation order;
\* a block's and a head's parameters are allocated with the layer and stay
\* allocated whatever the level is
BlockLayerNames(preconv) ==
    (IF preconv THEN <<"upsample_conv.kernel">> ELSE <<>>) \o
    <<"noise_affine1", "latent_proj1.kernel", "latent_proj1.bias",
      "conv.kernel",
      "noise_affine2", "latent_proj2.kernel", "latent_proj2.bias">>

BlockVariables(i, preconv) ==
    [j \in 1..Len(BlockLayerNames(preconv)) |->
        <<"blocks", i, BlockLayerNames(preconv)[j]>>]

Block(i, out_dim, preconv, upsample) ==
    [index |-> i, out_dim |-> out_dim, preconv |-> preconv,
     upsample |-> upsample,
     trainable_variables |-> BlockVariables(i, preconv)]

ToRGB(i) ==
    [index |-> i,
     trainable_variables |-> <<<<"to_rgb", i, "kernel">>, <<"to_rgb", i, "bias">>>>]

UpsamplePolicyInclusive(resolution) == IF resolution <= 128 THEN "repeat" ELSE "deconv"

UpsamplePolicy(resolution) == IF resolution < 128 THEN "repeat" ELSE "deconv"

\* the loop of Generator.__init__: iteration i with the running channels and
\* resolution, appending to the lists built so far
RECURSIVE BuildLoop(_, _, _, _, _, _)
BuildLoop(i, n, mc, channels, resolution, acc) ==
    IF i >= n THEN acc
    ELSE BuildLoop(i + 1, n, mc, channels \div 2, resolution * 2,
                   [blocks |-> Append(acc.blocks,
                                      Block(i, Min(mc, channels), i > 0,
                                            UpsamplePolicy(resolution))),
                    to_rgb |-> Append(acc.to_rgb, ToRGB(i))])

GeneratorInit(ic, mc, nl) ==
    LET channels == ic * Pow2(nl - 1)
        lists == BuildLoop(0, nl, mc, channels, 4, [blocks |-> <<>>, to_rgb |-> <<>>])
    IN  /\ init_channels = ic
        /\ max_channels = mc
        /\ num_layer = nl
        /\ level = nl - 1
        /\ const = [resolution |-> 4, channels |-> Min(mc, channels)]
        /\ blocks = lists.blocks
        /\ to_rgb = lists.to_rgb

GenInit ==
    /\ \E ic \in InitChannelsArgs, mc \in MaxChannelsArgs, nl \in NumLayerArgs :
          GeneratorInit(ic, mc, nl)
    /\ levelWasSet = FALSE
    /\ gret = [op |-> "__init__"]

(***************************************************************************)
(* Generator.set_level                                                     *)
(***************************************************************************)
NewLevel(arg) == arg

set_level(arg) ==
    /\ level' = NewLevel(arg)
    /\ levelWasSet' = TRUE
    /\ gret' = [op |-> "set_level", arg |-> arg]
    /\ UNCHANGED <<init_channels, max_channels, num_layer, const, blocks, to_rgb>>
    /\ UNCHANGED alaeVars

(***************************************************************************)
(* Generator.call                                                          *)
(***************************************************************************)
\* Block.call on a feature map: upsample_conv doubles the spatial size when
\* preconv, every other layer keeps it; the output has out_dim channels
BlockCall(block, x) ==
    [resolution |-> IF block.preconv THEN 2 * x.resolution ELSE x.resolution,
     channels |-> block.out_dim]

ActiveBlocksShort == PySliceTo(blocks, level)

ActiveBlocks == PySliceTo(blocks, level + 1)

\* for block in active: x = block(x, styles, styles)
RECURSIVE RunBlocks(_, _)
RunBlocks(active, x) ==
    IF active = <<>> THEN x
    ELSE RunBlocks(Tail(active), BlockCall(Head(active), x))

GeneratorCallResult ==
    LET x == RunBlocks(ActiveBlocks, const)
    IN  IF PyIndexRaises(to_rgb, level)
        THEN [op |-> "call", status |-> "IndexError", level |-> level]
        ELSE [op |-> "call", status |-> "ok", level |-> level,
              applied |-> [j \in 1..Len(ActiveBlocks) |-> ActiveBlocks[j].index],
              head |-> PyIndex(to_rgb, level).index,
              size |-> x.resolution]

GeneratorCall ==
    /\ gret' = GeneratorCallResult
    /\ UNCHANGED <<init_channels, max_channels, num_layer, level, const, blocks,
                   to_rgb, levelWasSet>>
    /\ UNCHANGED alaeVars

(***************************************************************************)
(* Generator.level_variables                                               *)
(***************************************************************************)
RECURSIVE ExtendWith(_, _)
ExtendWith(var, active) ==
    IF active = <<>> THEN var
    ELSE ExtendWith(var \o Head(active).trainable_variables, Tail(active))

LevelVariablesAtAllBlocks(lv) ==
    ExtendWith(PyIndex(to_rgb, lv).trainable_variables, blocks)

LevelVariablesAt(lv) ==
    ExtendWith(PyIndex(to_rgb, lv).trainable_variables, PySliceTo(blocks, lv + 1))

LevelVariablesResult ==
    IF PyIndexRaises(to_rgb, level)
    THEN [op |-> "level_variables", status |-> "IndexError", level |-> level]
    ELSE [op |-> "level_variables", status |-> "ok", level |-> level,
          var |-> LevelVariablesAt(level)]

level_variables ==
    /\ gret' = LevelVariablesResult
    /\ UNCHANGED <<init_channels, max_channels, num_layer, level, const, blocks,
                   to_rgb, levelWasSet>>
    /\ UNCHANGED alaeVars

(***************************************************************************)
(* ALAE (alae.py)                                                          *)
(*                                                                         *)
(* The four sub-models come from builder methods a subclass supplies.      *)
(* Each sub-model is abstracted to one trainable variable holding an       *)
(* integer.  A Keras model creates its variables either when constructed   *)
(* or on its first call; which one a builder returns is the subclass's     *)
(* choice, drawn with the subclass in the initial state (lazy).  The       *)
(* property trainable_variables lists the variables existing when read.    *)
(***************************************************************************)
Models == {"map", "gen", "enc", "disc"}

\* the builders in the order prepare calls them (lines 25-28)
Builders == <<"map", "gen", "enc", "disc">>

\* Optional[float]: None is the empty tuple, a number c is <<c>>
None == <<>>

Some(c) == <<c>>

\* the values a sampled prior z, a batch x and the epochs/steps arguments take
Z == {0, 1}
X == {0, 1}
Epochs == {0, 1}
ClipArgs == {None} \cup {Some(c) : c \in 1..MaxClip}

Range(s) == {s[j] : j \in 1..Len(s)}

InitialValue == 0

FreshOptimizer == [iterations |-> 0, slots |-> [m \in Models |-> 0]]

AlaeInitWith(ov, lz) ==
    /\ overridden = ov
    /\ lazy = lz
    /\ attrs = {}
    /\ disc_gclip = None
    /\ built = [m \in Models |-> FALSE]
    /\ params = [m \in Models |-> InitialValue]
    /\ ed_var = <<>>
    /\ fg_var = <<>>
    /\ eg_var = <<>>
    /\ opts = [o \in {"ed_opt", "fg_opt", "eg_opt"} |-> FreshOptimizer]
    /\ pc = "idle"
    /\ cur_x = 0
    /\ nsteps = 0
    /\ subs = <<>>
    /\ aret = [op |-> "__init__"]

\* ALAE.__init__ assigns nothing; the subclass fixes which builders exist
AlaeInit == \E ov \in SUBSET Models : \E lz \in SUBSET ov : AlaeInitWith(ov, lz)

(***************************************************************************)
(* ALAE.prepare                                                            *)
(***************************************************************************)
\* model.trainable_variables, read with the variables existing in b
TrainableVariables(m, b) == IF b[m] THEN <<m>> ELSE <<>>

\* self.X.trainable_variables + self.Y.trainable_variables, read at prepare
CapturedGroup(m1, m2, b) == TrainableVariables(m1, b) \o TrainableVariables(m2, b)

\* number of builders that return before one raises NotImplementedError
RECURSIVE BuiltPrefix(_, _)
BuiltPrefix(ov, k) ==
    IF k < Len(Builders) /\ Builders[k + 1] \in ov THEN BuiltPrefix(ov, k + 1) ELSE k

prepare(c) ==
    /\ pc = "idle"
    /\ LET k == BuiltPrefix(overridden, 0)
           made == {Builders[j] : j \in 1..k}
           b == [m \in Models |-> IF m \in made THEN m \notin lazy ELSE built[m]]
       IN  /\ disc_gclip' = c
           /\ built' = b
           /\ params' = [m \in Models |-> IF m \in made THEN InitialValue ELSE params[m]]
           /\ IF k < Len(Builders)
              THEN /\ attrs' = attrs \cup {"z_dim", "gamma", "disc_gclip"} \cup made
                   /\ aret' = [op |-> "prepare", status |-> "NotImplementedError",
                               builder |-> Builders[k + 1]]
                   /\ UNCHANGED <<ed_var, fg_var, eg_var, opts, nsteps>>
              ELSE /\ attrs' = attrs \cup {"z_dim", "gamma", "disc_gclip"} \cup made
                                \cup {"fakepass", "realpass", "latentpass",
                                      "ed_var", "fg_var", "eg_var",
                                      "ed_opt", "fg_opt", "eg_opt"}
                   /\ ed_var' = CapturedGroup("enc", "disc", b)
                   /\ fg_var' = CapturedGroup("map", "gen", b)
                   /\ eg_var' = CapturedGroup("enc", "gen", b)
                   /\ opts' = [o \in DOMAIN opts |-> FreshOptimizer]
                   /\ nsteps' = 0
                   /\ aret' = [op |-> "prepare", status |-> "ok"]
    /\ subs' = <<>>
    /\ UNCHANGED <<overridden, lazy, pc, cur_x>>
    /\ UNCHANGED genVars

(***************************************************************************)
(* encode, generate, call                                                  *)
(***************************************************************************)
\* a forward pass through the sub-models ms creates their variables
Build(b, ms) == [m \in Models |-> b[m] \/ m \in ms]

encode(x) ==
    /\ pc = "idle"
    /\ IF "enc" \in attrs
       THEN /\ built' = Build(built, {"enc"})
            /\ aret' = [op |-> "encode", status |-> "ok",
                        out |-> <<"enc", params["enc"], x>>]
       ELSE /\ aret' = [op |-> "encode", status |-> "AttributeError"]
            /\ UNCHANGED built
    /\ UNCHANGED <<overridden, lazy, attrs, disc_gclip, params, ed_var, fg_var, eg_var,
                   opts, pc, cur_x, nsteps, subs>>
    /\ UNCHANGED genVars

generate(latent) ==
    /\ pc = "idle"
    /\ IF "gen" \in attrs
       THEN /\ built' = Build(built, {"gen"})
            /\ aret' = [op |-> "generate", status |-> "ok",
                        out |-> <<"gen", params["gen"], latent>>]
       ELSE /\ aret' = [op |-> "generate", status |-> "AttributeError"]
            /\ UNCHANGED built
    /\ UNCHANGED <<overridden, lazy, attrs, disc_gclip, params, ed_var, fg_var, eg_var,
                   opts, pc, cur_x, nsteps, subs>>
    /\ UNCHANGED genVars

\* latent = self.encode(x); return latent, self.generate(latent)
ALAECall(x) ==
    /\ pc = "idle"
    /\ IF "enc" \notin attrs
       THEN /\ aret' = [op |-> "call", status |-> "AttributeError"]
            /\ UNCHANGED built
       ELSE IF "gen" \notin attrs
       THEN /\ aret' = [op |-> "call", status |-> "AttributeError"]
            /\ built' = Build(built, {"enc"})
       ELSE /\ built' = Build(built, {"enc", "gen"})
            /\ aret' = [op |-> "call", status |-> "ok",
                        out |-> <<<<"enc", params["enc"], x>>,
                                  <<"gen", params["gen"], <<"enc", params["enc"], x>>>>>>]
    /\ UNCHANGED <<overridden, lazy, attrs, disc_gclip, params, ed_var, fg_var, eg_var,
                   opts, pc, cur_x, nsteps, subs>>
    /\ UNCHANGED genVars

(***************************************************************************)
(* The loss functions.  A loss value is the term naming the function and   *)
(* everything it reads: the parameters of the sub-models of its passes,    *)
(* the prior z and, for the discriminator loss, the batch x.               *)
(***************************************************************************)
\* the sub-models a loss function runs
PassModels(fn) ==
    IF fn = "_latent_loss" THEN {"map", "gen", "enc"} ELSE Models

\* the attributes a loss function reads on self
PassAttrs(fn) ==
    IF fn = "_disc_loss" THEN {"fakepass", "realpass", "ed_var", "gamma"}
    ELSE IF fn = "_gen_loss" THEN {"fakepass"}
    ELSE {"map", "latentpass"}

Loss(fn, p, z, x) ==
    IF fn = "_disc_loss"
    THEN <<fn, p["map"], p["gen"], p["enc"], p["disc"], z, x>>
    ELSE IF fn = "_gen_loss"
    THEN <<fn, p["map"], p["gen"], p["enc"], p["disc"], z>>
    ELSE <<fn, p["map"], p["gen"], p["enc"], z>>

(***************************************************************************)
(* ALAE.losses                                                             *)
(***************************************************************************)
LossesResultEpochs(p, z, x, epochs, steps) ==
    [disc |-> Loss("_disc_loss", p, z + epochs, x),
     gen |-> Loss("_gen_loss", p, z + epochs, None),
     latent |-> Loss("_latent_loss", p, z + epochs, None)]

LossesResult(p, z, x, epochs, steps) ==
    [disc |-> Loss("_disc_loss", p, z, x),
     gen |-> Loss("_gen_loss", p, z, None),
     latent |-> Loss("_latent_loss", p, z, None)]

losses(x, epochs, steps, z) ==
    /\ pc = "idle"
    /\ IF ({"z_dim"} \cup UNION {PassAttrs(fn) :
                                     fn \in {"_disc_loss", "_gen_loss", "_latent_loss"}})
              \subseteq attrs
       THEN /\ built' = Build(built, Models)
            /\ aret' = [op |-> "losses", status |-> "ok", x |-> x, z |-> z,
                        result |-> LossesResult(params, z, x, epochs, steps)]
       ELSE /\ aret' = [op |-> "losses", status |-> "AttributeError"]
            /\ UNCHANGED built
    /\ UNCHANGED <<overridden, lazy, attrs, disc_gclip, params, ed_var, fg_var, eg_var,
                   opts, pc, cur_x, nsteps, subs>>
    /\ UNCHANGED genVars

(***************************************************************************)
(* ALAE._update                                                            *)
(***************************************************************************)
VarIndex == [m \in Models |-> IF m = "map" THEN 0 ELSE IF m = "gen" THEN 1
                              ELSE IF m = "enc" THEN 2 ELSE 3]

\* tape.gradient(loss, var) for one variable: autodiff is abstracted to a
\* deterministic function of what the loss read, with values in
\* -MaxGrad..MaxGrad
Gradient(fn, v, p, z, x) ==
    ((p[v] + VarIndex[v] + z + (IF fn = "_disc_loss" THEN x ELSE 0))
        % (2 * MaxGrad + 1)) - MaxGrad

\* tf.clip_by_value(t, lo, hi): minimum with hi, then maximum with lo
ClipByValue(t, lo, hi) == Max(Min(t, hi), lo)

ClipGradientsSkipped(grad, grad_clip) == grad

\* lines 151-152
ClipGradients(grad, grad_clip) ==
    IF grad_clip # None
    THEN [v \in DOMAIN grad |-> ClipByValue(grad[v], 0 - grad_clip[1], grad_clip[1])]
    ELSE grad

\* opt.apply_gradients(zip(grad, var)) on the variables: Adam's step is
\* abstracted to subtracting the gradient it is given
ApplyToVariables(p, var, grad) ==
    [m \in Models |-> IF m \in Range(var) THEN p[m] - grad[m] ELSE p[m]]

\* opt.apply_gradients(zip(grad, var)) on the optimizer's own state
ApplyToOptimizer(o, var, grad) ==
    [iterations |-> o.iterations + 1,
     slots |-> [m \in Models |-> IF m \in Range(var) THEN o.slots[m] + grad[m]
                                 ELSE o.slots[m]]]

LossInputAtPrepare == [m \in Models |-> InitialValue]

\* the variable values the loss function reads: the live variables
LossInput == params

ParamsWhenRaisedPartial(p, var, grad) ==
    [m \in Models |-> IF var # <<>> /\ m = var[1] THEN p[m] - grad[m] ELSE p[m]]

\* the variables when lines 148-152 raise: line 153 has not run
ParamsWhenRaised(p, var, grad) == p

\* one _update call; raises says whether and where the loss or gradient
\* computation fails
Update(a, x, z, raises) ==
    LET read == LossInput
        loss == Loss(a.loss_fn, read, z, x)
        raw  == [m \in Models |-> IF m \in Range(a.var)
                                  THEN Gradient(a.loss_fn, m, read, z, x) ELSE 0]
        grad == ClipGradients(raw, a.grad_clip)
        fwd  == Build(built, PassModels(a.loss_fn))
    IN  IF raises = "loss"
        THEN [status |-> "raised", built |-> built,
              params |-> ParamsWhenRaised(params, a.var, grad), opt |-> opts[a.opt]]
        ELSE IF raises = "gradient"
        THEN [status |-> "raised", built |-> fwd,
              params |-> ParamsWhenRaised(params, a.var, grad), opt |-> opts[a.opt]]
        ELSE IF a.var = <<>>
        THEN \* apply_gradients refuses an empty list of variables
             [status |-> "ValueError", built |-> fwd,
              params |-> params, opt |-> opts[a.opt]]
        ELSE [status |-> "ok", built |-> fwd,
              params |-> ApplyToVariables(params, a.var, grad),
              opt |-> ApplyToOptimizer(opts[a.opt], a.var, grad),
              rec |-> [loss_fn |-> a.loss_fn, var |-> a.var, opt |-> a.opt,
                       grad_clip |-> a.grad_clip, z |-> z, x |-> x,
                       read |-> read, loss |-> loss, raw |-> raw, grad |-> grad,
                       left |-> ApplyToVariables(params, a.var, grad)]]

Raises == {"no", "loss", "gradient"}

(***************************************************************************)
(* ALAE.trainstep: the three _update calls of lines 165-167, one action    *)
(* each; pc keeps them in program order and keeps every other method out   *)
(* until the call returns or raises.                                       *)
(***************************************************************************)
TrainstepArgs(i) ==
    IF i = 1
    THEN [loss_fn |-> "_disc_loss", var |-> ed_var, opt |-> "ed_opt",
          grad_clip |-> disc_gclip]
    ELSE IF i = 2
    THEN [loss_fn |-> "_gen_loss", var |-> fg_var, opt |-> "fg_opt",
          grad_clip |-> None]
    ELSE [loss_fn |-> "_latent_loss", var |-> eg_var, opt |-> "eg_opt",
          grad_clip |-> None]

\* the effect of sub-step i on the state shared by the three actions
SubStep(i, x, z, raises, next) ==
    LET u == Update(TrainstepArgs(i), x, z, raises)
    IN  /\ built' = u.built
        /\ params' = u.params
        /\ opts' = [opts EXCEPT ![TrainstepArgs(i).opt] = u.opt]
        /\ IF u.status = "ok"
           THEN /\ subs' = (IF i = 1 THEN <<>> ELSE subs) \o <<u.rec>>
                /\ pc' = next
                /\ aret' = IF next = "idle"
                           THEN [op |-> "trainstep", status |-> "ok",
                                 result |-> [disc |-> subs[1].loss,
                                             gen |-> subs[2].loss,
                                             latent |-> u.rec.loss]]
                           ELSE [op |-> "trainstep", status |-> "running",
                                 substep |-> i]
           ELSE /\ subs' = IF i = 1 THEN <<>> ELSE subs
                /\ pc' = "idle"
                /\ aret' = [op |-> "trainstep", status |-> u.status,
                            substep |-> i]

trainstep(x, epochs, steps, z, raises) ==
    /\ pc = "idle"
    /\ nsteps < MaxTrainSteps
    /\ IF {"ed_var", "ed_opt", "disc_gclip"} \subseteq attrs
       THEN /\ nsteps' = nsteps + 1
            /\ cur_x' = x
            /\ SubStep(1, x, z, raises, "gen")
       ELSE /\ aret' = [op |-> "trainstep", status |-> "AttributeError"]
            /\ UNCHANGED <<built, params, opts, subs, pc, cur_x, nsteps>>
    /\ UNCHANGED <<overridden, lazy, attrs, disc_gclip, ed_var, fg_var, eg_var>>
    /\ UNCHANGED genVars

UpdateGen(z, raises) ==
    /\ pc = "gen"
    /\ SubStep(2, cur_x, z, raises, "latent")
    /\ UNCHANGED <<overridden, lazy, attrs, disc_gclip, ed_var, fg_var, eg_var,
                   cur_x, nsteps>>
    /\ UNCHANGED genVars

UpdateLatent(z, raises) ==
    /\ pc = "latent"
    /\ SubStep(3, cur_x, z, raises, "idle")
    /\ UNCHANGED <<overridden, lazy, attrs, disc_gclip, ed_var, fg_var, eg_var,
                   cur_x, nsteps>>
    /\ UNCHANGED genVars

(***************************************************************************)
(* Specifications                                                          *)
(***************************************************************************)
Next ==
    \/ \E c \in ClipArgs : prepare(c)
    \/ \E x \in X : encode(x)
    \/ \E latent \in X : generate(latent)
    \/ \E x \in X : ALAECall(x)
    \/ \E x \in X, epochs \in Epochs, steps \in Epochs, z \in Z :
          losses(x, epochs, steps, z)
    \/ \E x \in X, epochs \in Epochs, steps \in Epochs, z \in Z, raises \in Raises :
          trainstep(x, epochs, steps, z, raises)
    \/ \E z \in Z, raises \in Raises : UpdateGen(z, raises)
    \/ \E z \in Z, raises \in Raises : UpdateLatent(z, raises)

\* the orchestrator alone; the Generator object is left as constructed
Init ==
    /\ AlaeInit
    /\ GeneratorInit(1, 1, 1)
    /\ levelWasSet = FALSE
    /\ gret = [op |-> "__init__"]

Spec == Init /\ [][Next]_vars

GenNext ==
    \/ \E arg \in LevelArgs : set_level(arg)
    \/ GeneratorCall
    \/ level_variables

\* the Generator alone; no ALAE object takes a step
GenSpecInit == GenInit /\ AlaeInitWith({}, {})

GenSpec == GenSpecInit /\ [][GenNext]_vars

(***************************************************************************)
(* Properties of the Generator (checked under GenSpec)                     *)
(***************************************************************************)
LegalLevels == 0..(num_layer - 1)

\* C3: in every reachable state of a Generator, after any sequence of
\* set_level calls with any integer argument, level is in [0, num_layer).
C3_LevelInRange == level \in LegalLevels

\* C4: at a level k in [0, num_layer), call starts from the constant 4x4
\* base map, applies exactly blocks 0..k in index order, then the to-RGB head
\* k, and returns spatial size 2^(k+2); without any set_level call the size
\* is 2^(num_layer+1).
C4_CallAtLevel ==
    (gret.op = "call" /\ gret.level \in LegalLevels) =>
        /\ gret.status = "ok"
        /\ const.resolution = 4
        /\ gret.applied = [j \in 1..(gret.level + 1) |-> j - 1]
        /\ gret.head = gret.level
        /\ gret.size = Pow2(gret.level + 2)
        /\ (~levelWasSet => gret.size = Pow2(num_layer + 1))

C4_Witness ==
    /\ gret.op = "call"
    /\ levelWasSet
    /\ num_layer >= 4
    /\ gret.level = 2
    /\ gret.status = "ok"
    /\ gret.size = 16

VarSet(var) == {var[j] : j \in 1..Len(var)}

SubStepOrder == <<"_disc_loss", "_gen_loss", "_latent_loss">>

\* the sub-models whose variables sub-step i is to update
GroupModels(i) ==
    IF i = 1 THEN {"enc", "disc"} ELSE IF i = 2 THEN {"map", "gen"} ELSE {"enc", "gen"}

GroupOptimizer(i) == IF i = 1 THEN "ed_opt" ELSE IF i = 2 THEN "fg_opt" ELSE "eg_opt"

\* the step just taken completed sub-step i of a trainstep call
SubStepTaken(i) ==
    IF i = 1 THEN pc = "idle" /\ pc' = "gen"
    ELSE IF i = 2 THEN pc = "gen" /\ pc' = "latent"
    ELSE pc = "latent" /\ pc' = "idle" /\ aret'.status = "ok"

\* the step just taken is a trainstep call failing in its loss or gradient
\* computation
SubStepRaised ==
    /\ pc' = "idle"
    /\ aret'.op = "trainstep"
    /\ aret'.status = "raised"
    /\ pc # "idle" \/ nsteps' # nsteps

C1_History ==
    /\ Len(subs) <= 3
    /\ \A i \in 1..Len(subs) :
          /\ subs[i].loss_fn = SubStepOrder[i]
          /\ subs[i].loss = Loss(SubStepOrder[i], subs[i].read, subs[i].z, cur_x)
          /\ i > 1 => subs[i].read = subs[i - 1].left
    /\ pc = "gen" => Len(subs) = 1
    /\ pc = "latent" => Len(subs) = 2
    /\ (aret.op = "trainstep" /\ aret.status = "ok") =>
          /\ pc = "idle"
          /\ Len(subs) = 3
          /\ params = subs[3].left
          /\ aret.result = [disc |-> subs[1].loss, gen |-> subs[2].loss,
                            latent |-> subs[3].loss]

C1_NoInterleaving ==
    pc # "idle" =>
        /\ UNCHANGED <<attrs, disc_gclip, ed_var, fg_var, eg_var, cur_x>>
        /\ aret'.op = "trainstep"
        /\ \/ /\ Len(subs') = Len(subs) + 1
              /\ SubSeq(subs', 1, Len(subs)) = subs
              /\ subs'[Len(subs')].read = params
              /\ params' = subs'[Len(subs')].left
           \/ /\ pc' = "idle"
              /\ aret'.status \in {"raised", "ValueError"}
              /\ subs' = subs

\* C1: every trainstep call on a prepared model runs exactly three update
\* sub-steps in the order discriminator loss, generator loss, latent loss,
\* with nothing else in between; sub-step 2 computes its loss and gradients
\* from the parameter values sub-step 1 left, and sub-step 3 from those
\* sub-step 2 left.
C1_SequentialSubSteps == []C1_History /\ [][C1_NoInterleaving]_vars

C1_Witness ==
    /\ aret.op = "trainstep"
    /\ aret.status = "ok"
    /\ Len(subs) = 3
    /\ subs[2].read # subs[1].read
    /\ subs[3].read # subs[2].read

C2_GroupStep ==
    \A i \in 1..3 :
        SubStepTaken(i) =>
            /\ \A m \in Models \ GroupModels(i) : params'[m] = params[m]
            /\ \A o \in DOMAIN opts \ {GroupOptimizer(i)} : opts'[o] = opts[o]
            /\ opts'[GroupOptimizer(i)].iterations =
                  opts[GroupOptimizer(i)].iterations + 1
            /\ \A m \in GroupModels(i) :
                  built'[m] => m \in Range(subs'[i].var)

\* C2: sub-step 1 changes only encoder and discriminator parameters and only
\* the ed optimizer, sub-step 2 only mapper and generator parameters and the
\* fg optimizer, sub-step 3 only encoder and generator parameters and the eg
\* optimizer; and the group each sub-step updates contains every trainable
\* parameter its two sub-models have at the time of the step.
C2_GroupsExactAndComplete == [][C2_GroupStep]_vars

\* C6: with disc_gclip = c every gradient element applied in sub-step 1 lies
\* in [-c, c]; with disc_gclip = None the gradients of sub-step 1 are applied
\* as computed; the gradients of sub-steps 2 and 3 are applied as computed
\* whatever disc_gclip is.
C6_GradientClipping ==
    \A i \in 1..Len(subs) :
        LET r == subs[i]
            computed == [m \in Models |->
                            IF m \in Range(r.var)
                            THEN Gradient(r.loss_fn, m, r.read, r.z, r.x) ELSE 0]
            applied == [m \in Models |-> r.read[m] - r.left[m]]
        IN  /\ \A m \in Models \ Range(r.var) : applied[m] = 0
            /\ (i = 1 /\ disc_gclip # None) =>
                  \A m \in Range(r.var) :
                      /\ applied[m] >= 0 - disc_gclip[1]
                      /\ applied[m] <= disc_gclip[1]
                      /\ (computed[m] >= 0 - disc_gclip[1]
                            /\ computed[m] <= disc_gclip[1])
                         => applied[m] = computed[m]
            /\ (i = 1 /\ disc_gclip = None) => applied = computed
            /\ i > 1 => applied = computed

C6_Witness ==
    /\ Len(subs) = 3
    /\ disc_gclip # None
    /\ \E m \in Range(subs[1].var) : subs[1].raw[m] > disc_gclip[1]
    /\ \E m \in Range(subs[1].var) : subs[1].raw[m] < 0 - disc_gclip[1]
    /\ \A m \in Range(subs[1].var) :
          subs[1].read[m] - subs[1].left[m] \in {disc_gclip[1], 0 - disc_gclip[1]}
    /\ \E i \in 2..3 : \E m \in Range(subs[i].var) :
          subs[i].left[m] - subs[i].read[m] > disc_gclip[1]

C7_LossesStep ==
    (pc = "idle" /\ aret'.op = "losses" /\ aret' # aret) =>
        /\ UNCHANGED <<params, opts, ed_var, fg_var, eg_var, attrs, disc_gclip>>
        /\ aret'.status = "ok" =>
              aret'.result =
                  [disc |-> Loss(TrainstepArgs(1).loss_fn, params, aret'.z, aret'.x),
                   gen |-> Loss(TrainstepArgs(2).loss_fn, params, aret'.z, aret'.x),
                   latent |-> Loss(TrainstepArgs(3).loss_fn, params, aret'.z, aret'.x)]

\* C7: losses computes the three losses of trainstep (disc, gen, latent)
\* without applying gradients: every parameter of the four sub-models and
\* the state of the three optimizers are left unchanged, and the result is a
\* function of the parameters, the sampled prior and x alone, not of epochs
\* or steps.
C7_LossesReadOnly == [][C7_LossesStep]_vars

C7_Witness ==
    /\ aret.op = "losses"
    /\ aret.status = "ok"
    /\ nsteps >= 1
    /\ \E m \in Models : params[m] # InitialValue
    /\ opts["eg_opt"].iterations >= 1

\* prepare has run to its last line
PrepareSucceeded == "eg_opt" \in attrs

C8_MethodStep ==
    (/\ pc = "idle"
     /\ ~PrepareSucceeded
     /\ aret'.op \in {"encode", "generate", "call", "trainstep", "losses"}) =>
        /\ aret'.status = "AttributeError"
        /\ UNCHANGED <<attrs, disc_gclip, built, params, ed_var, fg_var, eg_var,
                       opts, pc, nsteps, subs>>

\* C8: on an ALAE object on which prepare has not completed (never called,
\* or raised NotImplementedError), encode, generate, call, trainstep and
\* losses fail with an initialization error and change no state.
C8_FailsBeforePrepare == [][C8_MethodStep]_vars

C9_AfterRaise ==
    (pc = "idle" /\ aret.op = "trainstep" /\ aret.status = "raised") =>
        /\ Len(subs) = aret.substep - 1
        /\ aret.substep > 1 => params = subs[aret.substep - 1].left

C9_RaiseStep == SubStepRaised => UNCHANGED <<params, opts>>

\* C9: when a trainstep call fails in the loss or gradient computation of
\* sub-step i, parameters and optimizer states are exactly those sub-step
\* i-1 left (the pre-call ones when i = 1): earlier sub-steps' updates are
\* kept, and no parameter of sub-step i's group is updated.
C9_SubStepsAtomic == []C9_AfterRaise /\ [][C9_RaiseStep]_vars

C9_Witness ==
    /\ pc = "idle"
    /\ aret.op = "trainstep"
    /\ aret.status = "raised"
    /\ aret.substep = 3
    /\ Len(subs) = 2
    /\ params["enc"] # InitialValue
    /\ params["gen"] # InitialValue
    /\ opts["eg_opt"].iterations = 0

====
